---- MODULE Spec2Model ----
(***************************************************************************)
(* Walking-time interactive map (njhenry/city_walkability).                *)
(*                                                                         *)
(* mapping_functions.js : ColorScheme, ColorSchemeNumeric,                 *)
(*                        ColorSchemeCategorical                           *)
(* make_travel_time_maps.js : destinations, map_terms, ttColorScheme,      *)
(*                        get_map_terms, update_travel_times, tt_style,    *)
(*                        info.update, the top-level script and the        *)
(*                        checkbox 'input' listener                        *)
(*                                                                         *)
(* Three specifications share the variables:                               *)
(*   Spec        the page: script, checkbox events, hover events           *)
(*   SpecScheme  a colour scheme constructed from arbitrary arguments and  *)
(*               queried with color_from_value                             *)
(*   SpecUpdate  update_travel_times applied to every layer for arbitrary  *)
(*               destination lists and arbitrary previous tt values        *)
(***************************************************************************)
EXTENDS Integers, Sequences, FiniteSets, TLC

VARIABLES
  scheme,      \* the ColorScheme object (limits, colors, labels, na_color)
  value,       \* argument of the last color_from_value call
  val_color,   \* result of the last color_from_value call
  checked,     \* document.getElementById(dest).checked, per destination
  map_terms,   \* global map_terms
  layers,      \* data_layer's layers; layers[i].feature.properties
  fill,        \* fillColor of each layer as last styled
  pc,          \* "script", "listener" or "idle"
  pos,         \* position in the running body
  ii,          \* number of layers already visited by the running eachLayer
  pending,     \* clicks on destination checkboxes not yet dispatched
  info_div,    \* info._div.innerHTML, as the sequence of concatenated pieces
  outcome,     \* how the last update_travel_times call completed
  same_again   \* the last full pass used the same list as the pass before it

vars == <<scheme, value, val_color, checked, map_terms, layers, fill, pc, pos,
          ii, pending, info_div, outcome, same_again>>

---------------------------------------------------------------------------
(* Bounds *)

\* number of destination categories taken from `destinations`
NumDest == 2
\* number of features in travel_time.geo
NumFeatures == 2
\* longest limits / colors / labels argument of a constructed scheme
MaxLen == 3
\* clicks that may wait while a handler runs
MaxPending == 1
\* numbers are fixed point: n stands for n / Scale minutes
Scale == 10

---------------------------------------------------------------------------
(* JavaScript values: numbers (fixed point), undefined and NaN *)

Num(n) == [k |-> "number", n |-> n]
Undefined == [k |-> "undefined", n |-> 0]
NaN == [k |-> "NaN", n |-> 0]

IsNum(x) == x.k = "number"

\* ToNumber(undefined) is NaN
ToNumber(x) == IF IsNum(x) THEN x ELSE NaN

\* a >= b : false when either side converts to NaN
Ge(a, b) == IsNum(ToNumber(a)) /\ IsNum(ToNumber(b)) /\ a.n >= b.n
\* a < b
Lt(a, b) == IsNum(ToNumber(a)) /\ IsNum(ToNumber(b)) /\ a.n < b.n
\* a > b
Gt(a, b) == IsNum(ToNumber(a)) /\ IsNum(ToNumber(b)) /\ a.n > b.n
\* a == b (loose equality on numbers and undefined; NaN equals nothing)
LooseEq(a, b) ==
  \/ IsNum(a) /\ IsNum(b) /\ a.n = b.n
  \/ a.k = "undefined" /\ b.k = "undefined"

\* Math.max(a, b)
MathMax(a, b) ==
  IF IsNum(ToNumber(a)) /\ IsNum(ToNumber(b))
  THEN (IF a.n >= b.n THEN a ELSE b)
  ELSE NaN

\* Math.round(x): nearest whole number, halves towards +infinity
MathRound(x) ==
  IF IsNum(ToNumber(x))
  THEN Num(((2 * x.n + Scale) \div (2 * Scale)) * Scale)
  ELSE NaN

\* string conversion of a whole number (or NaN) in `x + ' min.'`
NumToString(x) == IF IsNum(x) THEN ToString(x.n \div Scale) ELSE "NaN"

\* array[index] with a 0-based index held 1-based here: undefined outside the array
At(array, index) ==
  IF index \in 1..Len(array) THEN array[index] ELSE Undefined

---------------------------------------------------------------------------
(* mapping_functions.js : colour schemes *)

\* constructor(limits_asc, colors, labels, na_color = '#888'): stores its
\* arguments, validates nothing
ColorScheme(kind, limits_asc, colors, labels, na_color) ==
  [kind |-> kind, limits |-> limits_asc, colors |-> colors, labels |-> labels,
   na_color |-> na_color]

DefaultNaColor == "#888"

\* no scheme constructed yet
NoScheme == ColorScheme("none", <<>>, <<>>, <<>>, DefaultNaColor)

RECURSIVE NumericLoop(_, _, _, _)
NumericLoop(s, v, idx, col) ==
  IF idx > Len(s.colors) THEN col
  ELSE NumericLoop(s, v, idx + 1,
                   IF Ge(v, At(s.limits, idx)) THEN s.colors[idx] ELSE col)

RECURSIVE NumericLoopStrict(_, _, _, _)
NumericLoopStrict(s, v, idx, col) ==
  IF idx > Len(s.colors) THEN col
  ELSE NumericLoopStrict(s, v, idx + 1,
                   IF Gt(v, At(s.limits, idx)) THEN s.colors[idx] ELSE col)

RECURSIVE NumericLoopFirst(_, _, _, _)
NumericLoopFirst(s, v, idx, col) ==
  IF idx > Len(s.colors) THEN col
  ELSE IF Ge(v, At(s.limits, idx)) THEN s.colors[idx]
  ELSE NumericLoopFirst(s, v, idx + 1, col)

\* variant: `>` where the source has `>=`
Numeric_color_from_value_strict(s, v) == NumericLoopStrict(s, v, 1, s.na_color)

\* variant: stops at the first threshold reached
Numeric_color_from_value_first(s, v) == NumericLoopFirst(s, v, 1, s.na_color)

\* ColorSchemeNumeric.color_from_value(value)
ColorSchemeNumeric_color_from_value(s, v) == NumericLoop(s, v, 1, s.na_color)

RECURSIVE CategoricalLoop(_, _, _, _)
CategoricalLoop(s, v, idx, col) ==
  IF idx > Len(s.colors) THEN col
  ELSE CategoricalLoop(s, v, idx + 1,
                       IF LooseEq(v, At(s.limits, idx)) THEN s.colors[idx] ELSE col)

RECURSIVE CategoricalLoopFirst(_, _, _, _)
CategoricalLoopFirst(s, v, idx, col) ==
  IF idx > Len(s.colors) THEN col
  ELSE IF LooseEq(v, At(s.limits, idx)) THEN s.colors[idx]
  ELSE CategoricalLoopFirst(s, v, idx + 1, col)

\* variant: returns at the first matching key
Categorical_color_from_value_first(s, v) == CategoricalLoopFirst(s, v, 1, s.na_color)

\* ColorSchemeCategorical.color_from_value(value)
ColorSchemeCategorical_color_from_value(s, v) == CategoricalLoop(s, v, 1, s.na_color)

\* dynamic dispatch on the object's class
color_from_value(s, v) ==
  IF s.kind = "categorical"
  THEN ColorSchemeCategorical_color_from_value(s, v)
  ELSE ColorSchemeNumeric_color_from_value(s, v)

---------------------------------------------------------------------------
(* make_travel_time_maps.js : options *)

destination_keys ==
  <<"groceries", "libraries", "parks", "bus_stops", "link_stops",
    "restaurants", "cafes", "schools_el", "schools_mid", "schools_high">>

destination_labels ==
  <<"Supermarkets", "Libraries", "Parks", "Bus stops to downtown",
    "Link stations", "Restaurants", "Coffee shops", "Elementary schools",
    "Middle/junior high schools", "High schools">>

\* the first NumDest entries of `destinations`, in insertion order
DestKeys == SubSeq(destination_keys, 1, NumDest)
DestSet == {DestKeys[i] : i \in 1..Len(DestKeys)}

\* destinations[d]
destinations(d) ==
  destination_labels[CHOOSE i \in 1..Len(destination_keys) : destination_keys[i] = d]

\* var map_terms = ['groceries']
initial_map_terms == <<"groceries">>

ttLimits == <<0, 5, 10, 15, 20, 25, 30>>
ttColors == <<"#0868ac", "#5aabac", "#abedab", "#fda668", "#dd643c", "#b8432e",
              "#999999">>
ttLabels == <<"Under 5 min", "5 - 10 min", "10 - 15 min", "15 - 20 min",
              "20 - 25 min", "25 - 30 min", "Over 30 min">>

ttColorScheme ==
  ColorScheme("numeric", [i \in 1..Len(ttLimits) |-> Num(ttLimits[i] * Scale)],
              ttColors, ttLabels, DefaultNaColor)

---------------------------------------------------------------------------
(* make_travel_time_maps.js : helper functions *)

\* the property keys of a feature: one per destination, plus the derived 'tt'
PropKeys == DestSet \cup {"tt"}

\* function get_map_terms(): the checked destinations, in the order of `destinations`
RECURSIVE get_map_terms_loop(_, _, _)
get_map_terms_loop(chk, idx, checked_ids) ==
  IF idx > Len(DestKeys) THEN checked_ids
  ELSE get_map_terms_loop(chk, idx + 1,
         IF chk[DestKeys[idx]] THEN Append(checked_ids, DestKeys[idx])
         ELSE checked_ids)

\* variant: pushes every destination, checked or not
get_map_terms_all(chk) == DestKeys

get_map_terms(chk) == get_map_terms_loop(chk, 1, <<>>)

\* layer.feature.properties.tt = 999 when no destination is selected
NoDestinationsTT == 999

\* layer.feature.properties.tt = v
SetTT(layer, v) ==
  [layer EXCEPT !.feature.properties = [@ EXCEPT !["tt"] = v]]

\* destinations.forEach(d => tt = Math.max(tt, properties[d]))
RECURSIVE forEachMax(_, _, _, _)
forEachMax(properties, dests, idx, tt) ==
  IF idx > Len(dests) THEN tt
  ELSE forEachMax(properties, dests, idx + 1, MathMax(tt, properties[dests[idx]]))

\* variant: the maximum runs over every destination key of the feature
update_travel_times_all_keys(layer, dests) ==
  IF "feature" \in DOMAIN layer
  THEN IF Len(dests) = 0
       THEN SetTT(layer, Num(NoDestinationsTT * Scale))
       ELSE SetTT(layer, forEachMax(layer.feature.properties, DestKeys, 1, Num(0)))
  ELSE layer

RECURSIVE forEachSum(_, _, _, _)
forEachSum(properties, dests, idx, tt) ==
  IF idx > Len(dests) THEN tt
  ELSE forEachSum(properties, dests, idx + 1,
         IF IsNum(ToNumber(tt)) /\ IsNum(ToNumber(properties[dests[idx]]))
         THEN Num(tt.n + properties[dests[idx]].n) ELSE NaN)

\* variant: no reset of tt, and the values are accumulated onto it
update_travel_times_accumulate(layer, dests) ==
  IF "feature" \in DOMAIN layer
  THEN IF Len(dests) = 0
       THEN SetTT(layer, Num(NoDestinationsTT * Scale))
       ELSE SetTT(layer, forEachSum(layer.feature.properties, dests, 1,
                                    layer.feature.properties["tt"]))
  ELSE layer

\* update_travel_times = function(layer, destinations)
update_travel_times(layer, dests) ==
  IF "feature" \in DOMAIN layer
  THEN IF Len(dests) = 0
       THEN SetTT(layer, Num(NoDestinationsTT * Scale))
       ELSE SetTT(layer, forEachMax(layer.feature.properties, dests, 1, Num(0)))
  ELSE layer

\* how a call of update_travel_times completes: the body has no throw, and `in`,
\* .length, Math.max and a property read of a missing key do not throw
update_travel_times_completion(layer, dests) == "returned"

\* function tt_style(feature)
tt_style(feature) ==
  [fillColor |-> color_from_value(ttColorScheme, feature.properties["tt"])]

\* variant: Math.floor where the source has Math.round
tt_label_floor(v) ==
  IF Lt(v, Num(5 * Scale)) THEN "<5 min."
  ELSE IF Gt(v, Num(30 * Scale)) THEN ">30 min."
  ELSE NumToString(IF IsNum(ToNumber(v)) THEN Num((v.n \div Scale) * Scale) ELSE NaN)
       \o " min."

\* the walking-time label computed in info.update
tt_label(v) ==
  IF Lt(v, Num(5 * Scale)) THEN "<5 min."
  ELSE IF Gt(v, Num(30 * Scale)) THEN ">30 min."
  ELSE NumToString(MathRound(v)) \o " min."

InfoPrompt == "<h4>Select destinations, then<br/>hover over a tract for details</h4>"
InfoHeader == "<h4 style=\"margin:0px;\"><u>Walking time</u></h4>"

\* one paragraph appended to the info box
InfoParagraph(d, label) ==
  "<p style=\"margin:0px;\">" \o destinations(d) \o ": " \o label \o "</p>"

\* info.update = function(feature): the new innerHTML; `terms` is the global map_terms
info_update(feature, terms) ==
  IF feature = Undefined \/ Len(terms) = 0
  THEN <<InfoPrompt>>
  ELSE <<InfoHeader>> \o
       [j \in 1..Len(terms) |-> InfoParagraph(terms[j], tt_label(feature[terms[j]]))]

---------------------------------------------------------------------------
(* Input data: travel_time.geo, one precomputed walking time per destination *)

\* walking times around the label bounds 5 and 30 and around a rounding half
SampleTimes ==
  <<3 * Scale, 5 * Scale - 1, 5 * Scale, 17 * Scale + (Scale \div 2) + 1,
    30 * Scale, 30 * Scale + 1, 40 * Scale>>

DestIndex(d) == CHOOSE i \in 1..Len(DestKeys) : DestKeys[i] = d

\* properties of a freshly loaded feature: no 'tt' yet
Row(r) ==
  [key \in PropKeys |->
     IF key = "tt" THEN Undefined
     ELSE Num(SampleTimes[((r + DestIndex(key)) % Len(SampleTimes)) + 1])]

Layer(properties) == [feature |-> [properties |-> properties]]

---------------------------------------------------------------------------
(* Spec: the page *)

\* top-level script after L.geoJson(...): eachLayer(update), setStyle
script_body == <<"eachLayer", "setStyle">>

\* variant: the restyle precedes the recomputation
listener_body_restyle_first == <<"get_map_terms", "setStyle", "eachLayer">>

\* body of the checkbox 'input' listener
listener_body == <<"get_map_terms", "eachLayer", "setStyle">>

Body == IF pc = "script" THEN script_body
        ELSE IF pc = "listener" THEN listener_body ELSE <<>>

\* the statement about to run
Stmt == IF pc = "idle" THEN "none" ELSE Body[pos]

\* control moves to the next statement, or back to the event loop
Advance ==
  IF pos = Len(Body)
  THEN pc' = "idle" /\ pos' = 0
  ELSE pc' = pc /\ pos' = pos + 1

Init ==
  /\ scheme = ttColorScheme
  /\ value = Undefined
  /\ val_color = DefaultNaColor
  /\ map_terms = initial_map_terms
  /\ checked = [d \in DestSet |->
                  \E j \in 1..Len(initial_map_terms) : initial_map_terms[j] = d]
  /\ \E r \in 0..(Len(SampleTimes) - 1) :
       layers = [i \in 1..NumFeatures |-> Layer(Row(r + i - 1))]
  /\ fill = [i \in 1..NumFeatures |-> tt_style(layers[i].feature).fillColor]
  /\ pc = "script"
  /\ pos = 1
  /\ ii = 0
  /\ pending = <<>>
  /\ info_div = info_update(Undefined, map_terms)
  /\ outcome = "none"
  /\ same_again = FALSE

\* map_terms = get_map_terms();
Step_get_map_terms ==
  /\ Stmt = "get_map_terms"
  /\ map_terms' = get_map_terms(checked)
  /\ Advance
  /\ UNCHANGED <<scheme, value, val_color, checked, layers, fill, ii, pending,
                 info_div, outcome, same_again>>

\* data_layer.eachLayer((layer) => update_travel_times(layer, map_terms)); one layer
Step_eachLayer ==
  /\ Stmt = "eachLayer"
  /\ layers' = [layers EXCEPT ![ii + 1] = update_travel_times(@, map_terms)]
  /\ outcome' = update_travel_times_completion(layers[ii + 1], map_terms)
  /\ IF ii + 1 = Len(layers)
     THEN ii' = 0 /\ Advance
     ELSE ii' = ii + 1 /\ UNCHANGED <<pc, pos>>
  /\ UNCHANGED <<scheme, value, val_color, checked, map_terms, fill, pending,
                 info_div, same_again>>

\* data_layer.setStyle(tt_style);
Step_setStyle ==
  /\ Stmt = "setStyle"
  /\ fill' = [i \in 1..Len(layers) |-> tt_style(layers[i].feature).fillColor]
  /\ Advance
  /\ UNCHANGED <<scheme, value, val_color, checked, map_terms, layers, ii, pending,
                 info_div, outcome, same_again>>

\* the user clicks a destination checkbox; the click waits for the event loop
Click(d) ==
  /\ Len(pending) < MaxPending
  /\ pending' = Append(pending, d)
  /\ UNCHANGED <<scheme, value, val_color, checked, map_terms, layers, fill, pc,
                 pos, ii, info_div, outcome, same_again>>

\* the event loop takes the next click: the box toggles and 'input' fires
DispatchInput ==
  /\ pc = "idle"
  /\ pending # <<>>
  /\ checked' = [checked EXCEPT ![Head(pending)] = ~@]
  /\ pending' = Tail(pending)
  /\ pc' = "listener"
  /\ pos' = 1
  /\ UNCHANGED <<scheme, value, val_color, map_terms, layers, fill, ii, info_div,
                 outcome, same_again>>

\* mouseover: highlightFeature(e) -> info.update(layer.feature.properties)
highlightFeature(i) ==
  /\ pc = "idle"
  /\ info_div' = info_update(layers[i].feature.properties, map_terms)
  /\ UNCHANGED <<scheme, value, val_color, checked, map_terms, layers, fill, pc,
                 pos, ii, pending, outcome, same_again>>

\* mouseout: resetHighlight(e) -> info.update()
resetHighlight ==
  /\ pc = "idle"
  /\ info_div' = info_update(Undefined, map_terms)
  /\ UNCHANGED <<scheme, value, val_color, checked, map_terms, layers, fill, pc,
                 pos, ii, pending, outcome, same_again>>

Next ==
  \/ Step_get_map_terms
  \/ Step_eachLayer
  \/ Step_setStyle
  \/ \E d \in DestSet : Click(d)
  \/ DispatchInput
  \/ \E i \in 1..NumFeatures : highlightFeature(i)
  \/ resetHighlight

Spec == Init /\ [][Next]_vars

---------------------------------------------------------------------------
(* SpecScheme: a scheme built from arbitrary arguments, then queried *)

\* classification keys and query values, in whole units
SchemeKeys == {Num(n * Scale) : n \in 0..(MaxLen - 1)}
SchemeValues == {Num(n * Scale) : n \in (-1)..MaxLen} \cup {Undefined}

\* sequences over S of length 0..MaxLen
SeqUpTo(S) == UNION {[1..n -> S] : n \in 0..MaxLen}

\* the first n colours / labels of the walking-time scheme
ColorArgs == {SubSeq(ttColors, 1, n) : n \in 0..MaxLen}
LabelArgs == {SubSeq(ttLabels, 1, n) : n \in 0..MaxLen}

InitScheme ==
  /\ scheme = NoScheme
  /\ value = Undefined
  /\ val_color = DefaultNaColor
  /\ map_terms = initial_map_terms
  /\ checked = [d \in DestSet |-> FALSE]
  /\ layers = <<>>
  /\ fill = <<>>
  /\ pc = "idle"
  /\ pos = 0
  /\ ii = 0
  /\ pending = <<>>
  /\ info_div = <<>>
  /\ outcome = "none"
  /\ same_again = FALSE

\* new ColorSchemeNumeric(...) / new ColorSchemeCategorical(...)
Construct(kind, limits_asc, colors, labels) ==
  /\ scheme.kind = "none"
  /\ scheme' = ColorScheme(kind, limits_asc, colors, labels, DefaultNaColor)
  /\ UNCHANGED <<value, val_color, checked, map_terms, layers, fill, pc, pos, ii,
                 pending, info_div, outcome, same_again>>

\* scheme.color_from_value(v)
Call_color_from_value(v) ==
  /\ scheme.kind # "none"
  /\ value' = v
  /\ val_color' = color_from_value(scheme, v)
  /\ UNCHANGED <<scheme, checked, map_terms, layers, fill, pc, pos, ii, pending,
                 info_div, outcome, same_again>>

NextScheme ==
  \/ /\ scheme.kind = "none"
     /\ \E kind \in {"numeric", "categorical"}, limits_asc \in SeqUpTo(SchemeKeys),
           colors \in ColorArgs, labels \in LabelArgs :
          Construct(kind, limits_asc, colors, labels)
  \/ \E v \in SchemeValues : Call_color_from_value(v)

SpecScheme == InitScheme /\ [][NextScheme]_vars

---------------------------------------------------------------------------
(* SpecUpdate: full recomputation passes over arbitrary data *)

\* per-destination values of a feature: missing, negative, and two walking times
UpdateValues == {Undefined, Num(-2 * Scale), Num(4 * Scale), Num(12 * Scale)}

\* tt before the first pass: absent, an ordinary value, or the sentinel
PreviousTT == {Undefined, Num(7 * Scale), Num(NoDestinationsTT * Scale)}

\* destination lists of length 0..NumDest, duplicates and any order included
TermLists == UNION {[1..n -> DestSet] : n \in 0..NumDest}

\* feature i carries the base row rotated by i - 1 destinations
RotatedRow(base, i, tt) ==
  [key \in PropKeys |->
     IF key = "tt" THEN tt
     ELSE base[DestKeys[((DestIndex(key) + i - 2) % Len(DestKeys)) + 1]]]

InitUpdate ==
  /\ scheme = ttColorScheme
  /\ value = Undefined
  /\ val_color = DefaultNaColor
  /\ map_terms = <<>>
  /\ checked = [d \in DestSet |-> FALSE]
  /\ \E base \in [DestSet -> UpdateValues], tt0 \in [1..NumFeatures -> PreviousTT] :
       layers = [i \in 1..NumFeatures |-> Layer(RotatedRow(base, i, tt0[i]))]
  /\ fill = [i \in 1..NumFeatures |-> DefaultNaColor]
  /\ pc = "idle"
  /\ pos = 0
  /\ ii = 0
  /\ pending = <<>>
  /\ info_div = <<>>
  /\ outcome = "none"
  /\ same_again = FALSE

\* data_layer.eachLayer((layer) => update_travel_times(layer, terms)), all layers
RecomputeAll(terms) ==
  /\ layers' = [i \in 1..Len(layers) |-> update_travel_times(layers[i], terms)]
  /\ map_terms' = terms
  /\ outcome' = update_travel_times_completion(layers[Len(layers)], terms)
  /\ same_again' = (outcome # "none" /\ terms = map_terms)
  /\ UNCHANGED <<scheme, value, val_color, checked, fill, pc, pos, ii, pending,
                 info_div>>

NextUpdate == \E terms \in TermLists : RecomputeAll(terms)

SpecUpdate == InitUpdate /\ [][NextUpdate]_vars

---------------------------------------------------------------------------
(* Vocabulary of the properties *)

Range(seq) == {seq[j] : j \in 1..Len(seq)}

\* the checked destination checkboxes
CheckedSet == {d \in DestSet : checked[d]}

PropsOf(i) == layers[i].feature.properties

\* the greatest element of a non-empty set of integers
MaxOf(S) == CHOOSE m \in S : \A x \in S : m >= x

\* the derived value for active set S: the sentinel, or the greatest active value
ExpectedTT(properties, S) ==
  IF S = {} THEN Num(999 * Scale)
  ELSE Num(MaxOf({properties[d].n : d \in S}))

NonNegative(properties) ==
  \A d \in DestSet : IsNum(properties[d]) /\ properties[d].n >= 0

StrictlyAscending(limits) ==
  \A i, j \in 1..Len(limits) : i < j => limits[i].n < limits[j].n

\* the whole number k with k - 1/2 <= n / Scale < k + 1/2
Nearest(n) ==
  CHOOSE k \in 0..(n \div Scale + 1) :
    (2 * k - 1) * Scale <= 2 * n /\ 2 * n < (2 * k + 1) * Scale

\* the clamping rule with bounds 5 and 30
ExpectedLabel(v) ==
  IF v.n < 5 * Scale THEN "<5 min."
  ELSE IF v.n > 30 * Scale THEN ">30 min."
  ELSE ToString(Nearest(v.n)) \o " min."

ExpectedInfo(properties, terms) ==
  IF terms = <<>> THEN <<InfoPrompt>>
  ELSE <<InfoHeader>> \o
       [j \in 1..Len(terms) |->
          InfoParagraph(terms[j], ExpectedLabel(properties[terms[j]]))]

---------------------------------------------------------------------------
(* Properties *)

\* C1 (SpecScheme): for a numeric scheme with strictly ascending thresholds and
\* as many colours, a numeric value below the first threshold gets na_color, a
\* value in [t_i, t_{i+1}) gets colors[i], a value at or above the last threshold
\* gets the last colour; a value equal to a threshold is in the higher bucket.
C1_NumericBuckets ==
  (/\ scheme.kind = "numeric"
   /\ Len(scheme.limits) = Len(scheme.colors)
   /\ Len(scheme.limits) >= 1
   /\ StrictlyAscending(scheme.limits)
   /\ IsNum(value))
  => LET n == Len(scheme.limits)
         t == scheme.limits
     IN /\ value.n < t[1].n => val_color = scheme.na_color
        /\ \A i \in 1..(n - 1) :
             (t[i].n <= value.n /\ value.n < t[i + 1].n) => val_color = scheme.colors[i]
        /\ value.n >= t[n].n => val_color = scheme.colors[n]

\* C1 witness: a value exactly on the second of at least two thresholds was
\* coloured with the second colour.
C1_Witness ==
  /\ scheme.kind = "numeric"
  /\ Len(scheme.limits) = Len(scheme.colors)
  /\ Len(scheme.limits) >= 2
  /\ StrictlyAscending(scheme.limits)
  /\ value = scheme.limits[2]
  /\ val_color = scheme.colors[2]

\* C6 (SpecScheme), the claim as stated: a scheme whose limits, colors and labels
\* differ in length is rejected at construction, so a scheme that has answered a
\* color_from_value call has three sequences of one length.
C6_MismatchRejected ==
  (scheme.kind # "none" /\ IsNum(value))
  => /\ Len(scheme.limits) = Len(scheme.colors)
     /\ Len(scheme.colors) = Len(scheme.labels)

\* C7 (SpecScheme): for a categorical scheme with as many colours as keys, the
\* result is the colour of the last key equal to the value, and na_color when no
\* key equals it.
C7_CategoricalLastMatch ==
  (/\ scheme.kind = "categorical"
   /\ Len(scheme.limits) = Len(scheme.colors))
  => LET M == {i \in 1..Len(scheme.limits) : scheme.limits[i] = value}
     IN IF M = {} THEN val_color = scheme.na_color
        ELSE val_color = scheme.colors[MaxOf(M)]

\* C7 witness: two keys equal the value and the colour of the later one came back.
C7_Witness ==
  /\ scheme.kind = "categorical"
  /\ Len(scheme.limits) = Len(scheme.colors)
  /\ \E i, j \in 1..Len(scheme.limits) :
       /\ i < j
       /\ scheme.limits[i] = value
       /\ scheme.limits[j] = value
       /\ \A m \in (j + 1)..Len(scheme.limits) : scheme.limits[m] # value
       /\ val_color = scheme.colors[j]
       /\ scheme.colors[i] # scheme.colors[j]

\* C2 (SpecUpdate): after a pass, every feature with non-negative values has tt
\* 999 when the list is empty and otherwise the greatest of its values over the
\* listed destinations only.
C2_MaxOverActive ==
  outcome # "none"
  => \A i \in 1..Len(layers) :
       NonNegative(PropsOf(i))
       => PropsOf(i)["tt"] = ExpectedTT(PropsOf(i), Range(map_terms))

\* C2 witness: a pass over a non-empty list left tt below an unlisted value.
C2_Witness ==
  /\ outcome # "none"
  /\ map_terms # <<>>
  /\ \E i \in 1..Len(layers) :
       /\ NonNegative(PropsOf(i))
       /\ PropsOf(i)["tt"] = ExpectedTT(PropsOf(i), Range(map_terms))
       /\ \E d \in DestSet \ Range(map_terms) : PropsOf(i)[d].n > PropsOf(i)["tt"].n

\* C5 (SpecUpdate), the claim as stated: when a feature has no value for a
\* listed destination, the pass ends in a failure.
C5_MissingValueFails ==
  (/\ outcome # "none"
   /\ \E i \in 1..Len(layers) : \E d \in Range(map_terms) : PropsOf(i)[d] = Undefined)
  => outcome = "threw"

\* C8 (SpecUpdate): a pass with the list of the pass before it changes no layer.
C8_Idempotent ==
  [][(outcome # "none" /\ map_terms' = map_terms) => layers' = layers]_vars

\* C8 witness: two passes in a row used the same non-empty list.
C8_Witness ==
  /\ same_again
  /\ map_terms # <<>>
  /\ \E i \in 1..Len(layers) : IsNum(PropsOf(i)["tt"])

\* C3 (Spec): whenever the script or a listener has run to completion, map_terms
\* holds exactly the checked destinations and every feature's tt is the value
\* derived from that selection.
C3_ConsistentAfterEvent ==
  pc = "idle"
  => /\ Range(map_terms) = CheckedSet
     /\ Len(map_terms) = Cardinality(CheckedSet)
     /\ \A i \in 1..Len(layers) : PropsOf(i)["tt"] = ExpectedTT(PropsOf(i), CheckedSet)

\* C3 witness: two events later the initial destination is unchecked, another
\* one is checked, and tt follows the other one.
C3_Witness ==
  /\ pc = "idle"
  /\ CheckedSet = {DestKeys[2]}
  /\ map_terms = <<DestKeys[2]>>
  /\ \E i \in 1..Len(layers) :
       /\ PropsOf(i)["tt"] = PropsOf(i)[DestKeys[2]]
       /\ PropsOf(i)["tt"] # PropsOf(i)[DestKeys[1]]

\* C4 (Spec), the claim as stated: with no destination active every tt is 999
\* and every fill colour is the scheme's na_color.
C4_SentinelIsFallback ==
  (pc = "idle" /\ map_terms = <<>>)
  => \A i \in 1..Len(layers) :
       /\ PropsOf(i)["tt"] = Num(999 * Scale)
       /\ fill[i] = ttColorScheme.na_color

\* C4 amended (Spec): with no destination active every tt is 999 and every fill
\* colour is the colour of the last threshold bucket ('#999999', "Over 30 min"),
\* which is not na_color.
C4_SentinelIsLastBucket ==
  (pc = "idle" /\ map_terms = <<>>)
  => \A i \in 1..Len(layers) :
       /\ PropsOf(i)["tt"] = Num(999 * Scale)
       /\ fill[i] = "#999999"
       /\ fill[i] = ttColorScheme.colors[Len(ttColorScheme.colors)]
       /\ fill[i] # ttColorScheme.na_color

\* C4 witness: the last checked box was unchecked and the map restyled.
C4_Witness ==
  /\ pc = "idle"
  /\ CheckedSet = {}
  /\ map_terms = <<>>
  /\ \A i \in 1..Len(layers) : fill[i] = "#999999"

\* C9 (Spec): hovering a feature writes, for each active destination in order, a
\* paragraph whose time is '<5 min.' under 5, '>30 min.' over 30, and otherwise
\* the value rounded to the nearest whole minute followed by ' min.'.
C9_InfoLabels ==
  [][\A i \in 1..NumFeatures :
       highlightFeature(i) => info_div' = ExpectedInfo(PropsOf(i), map_terms)]_vars

\* C9 witness: the info box shows a value between the bounds rounded up (17.6 ->
\* 18), next to a value exactly on the upper bound shown as 30.
C9_Witness ==
  /\ Len(info_div) > 2
  /\ \E j \in 2..Len(info_div) :
       info_div[j] = "<p style=\"margin:0px;\">Supermarkets: 18 min.</p>"
  /\ \E j \in 2..Len(info_div) :
       info_div[j] = "<p style=\"margin:0px;\">Libraries: 30 min.</p>"

\* C10 (Spec): a restyle runs only when map_terms is the current selection and
\* every tt has been recomputed from it; the colours on the map between events
\* all come from the one current selection; and a checkbox toggles (the next
\* event starts) only between handlers.
C10_RestyleAfterFullPass ==
  /\ [](Stmt = "setStyle"
        => /\ Range(map_terms) = CheckedSet
           /\ \A i \in 1..Len(layers) :
                PropsOf(i)["tt"] = ExpectedTT(PropsOf(i), CheckedSet))
  /\ [](pc = "idle"
        => \A i \in 1..Len(layers) :
             fill[i] = color_from_value(ttColorScheme, ExpectedTT(PropsOf(i), CheckedSet)))
  /\ [][checked' # checked => (pc = "idle" /\ pc' = "listener")]_vars

\* C10 witness: a listener is about to restyle for a changed selection while a
\* further click waits.
C10_Witness ==
  /\ pc = "listener"
  /\ Stmt = "setStyle"
  /\ pending # <<>>
  /\ CheckedSet = DestSet

====
